---- MODULE Spec2Model ----
(***************************************************************************)
(* A model of py-sudoku (sudoku.py): the Grid class with its 9x9 NumPy     *)
(* array, the candidate generation, the most-constrained-cell selection,   *)
(* the queue-driven solve() loop, and the command loop of the entry point. *)
(*                                                                         *)
(* NumPy arrays are objects with identity: the model keeps them in a heap  *)
(* (mem), the grid's own array self.__G at address GAddr, and the deque of *)
(* solve() holds addresses.  Copies (np.copy) allocate a new address.      *)
(***************************************************************************)
EXTENDS Integers, Sequences, FiniteSets, TLC

VARIABLES
    mem,            \* heap: address -> ndarray [shape, data]
    queue,          \* solve(): the deque, a sequence of addresses
    pc,             \* control position: "idle"; in solve() "loop", "pop", "done",
                    \* "IndexError"; "returned" after a direct call; "exit"
    completed,      \* solve(): local completed
    abort,          \* solve(): local abort
    field,          \* solve(): (row, column) of the current iteration
    possibilities,  \* solve(): possibilities of the current iteration
    entry,          \* history: the grid's cells when the method was called
    shadow,         \* history: the cells of each queued snapshot when pushed
    expanded,       \* history: the expansions (grid, row, column) so far, in order
    popped,         \* history: the cells of the snapshot last popped
    iter,           \* number of loop iterations started by the current solve()
    ret,            \* the last direct call of a Grid method and its outcome
    out,            \* command loop: what the last command printed
    lastSet         \* history: arguments of the last set_number invocation

vars == <<mem, queue, pc, completed, abort, field, possibilities, entry,
          shadow, expanded, popped, iter, ret, out, lastSet>>

----------------------------------------------------------------------------
(* Program constants *)

\* np.zeros((9, 9)), range(9)
N == 9

\* (row // 3) * 3, x : x + 3
Box == 3

Idx == 0 .. (N - 1)

Digits == [i \in 1 .. 9 |-> i]

GAddr == 0

None == "None"

----------------------------------------------------------------------------
(* Bounds of the model *)

\* how many cells of Base an initial grid may differ in
MaxChanged == 5

\* loop iterations of one solve() that the command-loop model follows
MaxIter == 2

----------------------------------------------------------------------------
(* NumPy indexing *)

\* an integer index into an axis of length N: negative indices count from the
\* end, anything outside -N .. N-1 raises IndexError
IndexOK(i) == (i >= -N) /\ (i < N)

NormIndex(i) == IF i < 0 THEN i + N ELSE i

\* the positions selected by the slice start : stop on an axis of length N
SliceStart(k) == IF k < 0 THEN (IF k + N < 0 THEN 0 ELSE k + N)
                 ELSE (IF k > N THEN N ELSE k)

SliceIdx(start, stop) ==
    { i \in Idx : SliceStart(start) <= i /\ i < SliceStart(stop) }

----------------------------------------------------------------------------
(* Grid: the methods as functions of the cells g (row -> column -> value) *)

Zeros == [r \in Idx |-> [c \in Idx |-> 0]]

Array9x9(g) == [shape |-> <<N, N>>, data |-> g]

SetNumberOK(row, column) == IndexOK(row) /\ IndexOK(column)

\* set_number with row and column exchanged
SetNumberSwapped(g, row, column, value) ==
    IF SetNumberOK(row, column)
    THEN [g EXCEPT ![NormIndex(column)][NormIndex(row)] = value]
    ELSE g

SetNumber(g, row, column, value) ==
    IF SetNumberOK(row, column)
    THEN [g EXCEPT ![NormIndex(row)][NormIndex(column)] = value]
    ELSE g

GetNumber(g, row, column) == g[NormIndex(row)][NormIndex(column)]

ClearGrid(g) == [r \in Idx |-> [c \in Idx |-> 0]]

IsSolved(g, row, column) == GetNumber(g, row, column) > 0

IsCompleted(g) == \A r \in Idx : \A c \in Idx : IsSolved(g, r, c)

\* the box origin without the multiplication: row // 3
BoxOriginNoScale(i) == i \div Box

BoxOrigin(i) == (i \div Box) * Box

\* get_possibilities without the test against the column
GetPossibilitiesNoColumn(g, row, column) ==
    LET c == GetNumber(g, row, column)
        current_row == { g[NormIndex(row)][k] : k \in Idx }
        x == BoxOrigin(row)
        y == BoxOrigin(column)
        current_square == { g[a][b] : a \in SliceIdx(x, x + Box),
                                      b \in SliceIdx(y, y + Box) }
        Possible(i) == (i \notin current_row) /\ (i \notin current_square)
    IN  IF c > 0 THEN <<c>> ELSE SelectSeq(Digits, Possible)

GetPossibilities(g, row, column) ==
    LET c == GetNumber(g, row, column)
        current_row == { g[NormIndex(row)][k] : k \in Idx }
        current_column == { g[k][NormIndex(column)] : k \in Idx }
        x == BoxOrigin(row)
        y == BoxOrigin(column)
        current_square == { g[a][b] : a \in SliceIdx(x, x + Box),
                                      b \in SliceIdx(y, y + Box) }
        Possible(i) == (i \notin current_row) /\ (i \notin current_column)
                       /\ (i \notin current_square)
    IN  IF c > 0 THEN <<c>> ELSE SelectSeq(Digits, Possible)

\* the comparison as count <= lowest
LessOrEqual(count, lowest) == count <= lowest

\* the comparison count < lowest of the scan
Less(count, lowest) == count < lowest

\* the body of the scan without the test not self.is_solved(row, column)
VisitAnyCell(g, row, column, st) ==
    LET count == Len(GetPossibilities(g, row, column))
    IN  IF Less(count, st.lowest)
        THEN [lowest |-> count, field |-> <<row, column>>]
        ELSE st

\* the body of the scan passing over the cells that have no possibility
VisitSkipDead(g, row, column, st) ==
    IF ~ IsSolved(g, row, column)
    THEN LET count == Len(GetPossibilities(g, row, column))
         IN  IF count > 0 /\ Less(count, st.lowest)
             THEN [lowest |-> count, field |-> <<row, column>>]
             ELSE st
    ELSE st

\* the body of the two loops of find_most_constrained at one cell; st holds
\* the locals lowest and field
Visit(g, row, column, st) ==
    IF ~ IsSolved(g, row, column)
    THEN LET count == Len(GetPossibilities(g, row, column))
         IN  IF Less(count, st.lowest)
             THEN [lowest |-> count, field |-> <<row, column>>]
             ELSE st
    ELSE st

\* for column in range(9), from column on (lowest is a count and never
\* negative: reading it here only has st evaluated at every cell)
RECURSIVE ScanColumns(_, _, _, _)
ScanColumns(g, row, column, st) ==
    IF column >= N \/ st.lowest < 0 THEN st
    ELSE ScanColumns(g, row, column + 1, Visit(g, row, column, st))

\* for row in range(9), from row on
RECURSIVE ScanRows(_, _, _)
ScanRows(g, row, st) ==
    IF row >= N \/ st.lowest < 0 THEN st
    ELSE ScanRows(g, row + 1, ScanColumns(g, row, 0, st))

FindMostConstrained(g) ==
    ScanRows(g, 0, [lowest |-> 10, field |-> <<-1, -1>>]).field

----------------------------------------------------------------------------
(* to_string(): a string is a sequence of characters *)

DigitChars == <<"0", "1", "2", "3", "4", "5", "6", "7", "8", "9">>

\* str(n) of a positive integer: its decimal digits
RECURSIVE Str(_)
Str(n) ==
    IF n < 10 THEN <<DigitChars[n + 1]>>
    ELSE Str(n \div 10) \o <<DigitChars[(n % 10) + 1]>>

\* str(n) if n > 0 else "?"
CellText(n) == IF n > 0 THEN Str(n) ELSE <<"?">>

\* the separator test without the part i > 0
SeparatorDueFromZero(i) == i % 3 = 0

\* (row % 3 == 0) & (row > 0), and the same for the column
SeparatorDue(i) == (i % 3 = 0) /\ (i > 0)

Separator == <<"-", "-", "-", "+", "-", "-", "-", "+", "-", "-", "-">>

\* the loop over the columns from column on, joined: "".join(the_row)
RECURSIVE TheRow(_, _, _)
TheRow(g, row, column) ==
    IF column >= N THEN <<>>
    ELSE (IF SeparatorDue(column) THEN <<"|">> ELSE <<>>)
         \o CellText(GetNumber(g, row, column))
         \o TheRow(g, row, column + 1)

\* the loop over the rows from row on: the list rows
RECURSIVE RowsFrom(_, _)
RowsFrom(g, row) ==
    IF row >= N THEN <<>>
    ELSE (IF SeparatorDue(row) THEN <<Separator>> ELSE <<>>)
         \o <<TheRow(g, row, 0)>>
         \o RowsFrom(g, row + 1)

\* "\n".join(rows)
RECURSIVE JoinLines(_)
JoinLines(rows) ==
    IF Len(rows) = 0 THEN <<>>
    ELSE IF Len(rows) = 1 THEN rows[1]
    ELSE rows[1] \o <<"\n">> \o JoinLines(Tail(rows))

to_string(g) == JoinLines(RowsFrom(g, 0))

----------------------------------------------------------------------------
(* The heap *)

G == mem[GAddr].data

FreshAddr(m) == CHOOSE a \in 1 .. (Cardinality(DOMAIN m) + 1) : a \notin DOMAIN m

\* get_grid returning the view self.__G[:, :] instead of a copy of it
GetGridView(m) == [mem |-> m, addr |-> GAddr]

\* get_grid: np.copy(self.__G[:, :]) is a new array
GetGrid(m) ==
    LET a == FreshAddr(m)
    IN  [mem |-> [x \in DOMAIN m \cup {a} |-> IF x = a THEN m[GAddr] ELSE m[x]],
         addr |-> a]

\* the shape test looking at the number of rows only
ShapeOKRowsOnly(shape) ==
    IF Len(shape) = 2 THEN shape[1] = N ELSE FALSE

ShapeOK(shape) ==
    IF Len(shape) = 2 THEN (shape[1] = N) /\ (shape[2] = N) ELSE FALSE

\* set_grid binding the copy to a local name: the grid's array is not written
SetGridLocal(m, arr) == m

\* set_grid: the cells of arr are copied into the grid's own array
SetGrid(m, arr) ==
    IF ShapeOK(arr.shape)
    THEN [m EXCEPT ![GAddr] = [shape |-> <<N, N>>, data |-> arr.data]]
    ELSE m

\* an array nothing refers to any more is gone
Release(m, a, q) ==
    IF a = GAddr \/ (\E i \in 1 .. Len(q) : q[i] = a)
    THEN m
    ELSE [x \in DOMAIN m \ {a} |-> m[x]]

----------------------------------------------------------------------------
(* solve() *)

\* the for loop with its two statements in the other order:
\* queue.append(self.get_grid()), then set_number
RECURSIVE PushAllBeforeSet(_, _, _, _, _, _, _)
PushAllBeforeSet(m, q, sh, row, column, ps, k) ==
    IF k > Len(ps) THEN [mem |-> m, queue |-> q, shadow |-> sh]
    ELSE LET r  == GetGrid(m)
             m1 == [r.mem EXCEPT ![GAddr].data =
                        SetNumber(m[GAddr].data, row, column, ps[k])]
         IN  PushAllBeforeSet(m1, Append(q, r.addr), Append(sh, m[GAddr].data),
                              row, column, ps, k + 1)

\* the for loop calling set_number(column, row, p)
RECURSIVE PushAllSwapped(_, _, _, _, _, _, _)
PushAllSwapped(m, q, sh, row, column, ps, k) ==
    IF k > Len(ps) THEN [mem |-> m, queue |-> q, shadow |-> sh]
    ELSE LET m1 == [m EXCEPT ![GAddr].data =
                        SetNumber(m[GAddr].data, column, row, ps[k])]
             r  == GetGrid(m1)
         IN  PushAllSwapped(r.mem, Append(q, r.addr), Append(sh, m1[GAddr].data),
                            row, column, ps, k + 1)

\* the for loop with queue.appendleft in place of queue.append
RECURSIVE PushAllFront(_, _, _, _, _, _, _)
PushAllFront(m, q, sh, row, column, ps, k) ==
    IF k > Len(ps) THEN [mem |-> m, queue |-> q, shadow |-> sh]
    ELSE LET m1 == [m EXCEPT ![GAddr].data =
                        SetNumber(m[GAddr].data, row, column, ps[k])]
             r  == GetGrid(m1)
         IN  PushAllFront(r.mem, <<r.addr>> \o q, <<m1[GAddr].data>> \o sh,
                          row, column, ps, k + 1)

\* the for loop of solve() from the k-th possibility on: set_number, then
\* queue.append(self.get_grid()); sh follows the queue with the cells pushed
RECURSIVE PushAll(_, _, _, _, _, _, _)
PushAll(m, q, sh, row, column, ps, k) ==
    IF k > Len(ps) THEN [mem |-> m, queue |-> q, shadow |-> sh]
    ELSE LET m1 == [m EXCEPT ![GAddr].data =
                        SetNumber(m[GAddr].data, row, column, ps[k])]
             r  == GetGrid(m1)
         IN  PushAll(r.mem, Append(q, r.addr), Append(sh, m1[GAddr].data),
                     row, column, ps, k + 1)

\* the abort test left out
AbortNever(q, ab) == ab

\* the abort test off by one: if len(queue) <= 1
AbortEarly(q, ab) == IF Len(q) <= 1 THEN TRUE ELSE ab

\* if len(queue) == 0: abort = True
AbortAfterPop(q, ab) == IF Len(q) = 0 THEN TRUE ELSE ab

\* the loop test without the part not completed
LoopTestAbortOnly(comp, ab) == ~ ab

\* the loop test without the part not abort
LoopTestCompletedOnly(comp, ab) == ~ comp

\* while (not completed) & (not abort)
LoopTest(comp, ab) == (~ comp) /\ (~ ab)

\* the snapshots one iteration appends, as cells: the grid after each
\* set_number of the for loop
RECURSIVE Successors(_, _, _, _, _)
Successors(g, row, column, ps, k) ==
    IF k > Len(ps) THEN <<>>
    ELSE LET g1 == SetNumber(g, row, column, ps[k])
         IN  <<g1>> \o Successors(g1, row, column, ps, k + 1)

\* the loop of solve() run to its end on values: g the grid's cells, q the
\* cells of the queued snapshots; the outcome is the grid at return
RECURSIVE SolveLoop(_, _)
SolveLoop(g, q) ==
    LET f  == FindMostConstrained(g)
        ps == GetPossibilities(g, f[1], f[2])
        q1 == q \o Successors(g, f[1], f[2], ps, 1)
        g2 == Head(q1)
        q2 == Tail(q1)
        c2 == IsCompleted(g2)
        a2 == AbortAfterPop(q2, FALSE)
    IN  IF LoopTest(c2, a2) THEN SolveLoop(g2, q2)
        ELSE [grid |-> g2, completed |-> c2, abort |-> a2]

\* solve() as a function of the grid it is called on
SolveOutcome(g) ==
    IF LoopTest(IsCompleted(g), FALSE) THEN SolveLoop(g, <<g>>)
    ELSE [grid |-> g, completed |-> IsCompleted(g), abort |-> FALSE]

\* lines 186-189 and the first test of the loop
SolveBegin ==
    /\ pc = "idle"
    /\ LET r == GetGrid(mem)
       IN  /\ mem' = r.mem
           /\ queue' = <<r.addr>>
           /\ shadow' = <<G>>
    /\ abort' = FALSE
    /\ completed' = IsCompleted(G)
    /\ pc' = IF LoopTest(IsCompleted(G), FALSE) THEN "loop" ELSE "done"
    /\ entry' = G
    /\ expanded' = <<>>
    /\ popped' = <<>>
    /\ iter' = 0
    /\ field' = <<>>
    /\ possibilities' = <<>>
    /\ UNCHANGED <<ret, out, lastSet>>

\* lines 196-204: select the cell, compute its possibilities, push one
\* snapshot per possibility
Expand ==
    /\ pc = "loop"
    /\ \E f \in {FindMostConstrained(G)} :
       \E ps \in {GetPossibilities(G, f[1], f[2])} :
       \E res \in {PushAll(mem, queue, shadow, f[1], f[2], ps, 1)} :
           /\ field' = f
           /\ possibilities' = ps
           /\ mem' = res.mem
           /\ queue' = res.queue
           /\ shadow' = res.shadow
           /\ expanded' = Append(expanded, [grid |-> G, row |-> f[1], column |-> f[2]])
           /\ lastSet' = IF Len(ps) > 0 THEN <<f[1], f[2], ps[Len(ps)]>> ELSE lastSet
    /\ iter' = iter + 1
    /\ pc' = "pop"
    /\ UNCHANGED <<completed, abort, entry, popped, ret, out>>

\* queue.pop() in place of queue.popleft(): the newest snapshot
PopRight(q) == [item |-> q[Len(q)], rest |-> SubSeq(q, 1, Len(q) - 1)]

\* queue.popleft() of a deque that is not empty: the oldest snapshot
PopLeft(q) == [item |-> Head(q), rest |-> Tail(q)]

\* lines 206-213 and the next test of the loop; popleft() of an empty deque
\* raises IndexError
Pop ==
    /\ pc = "pop"
    /\ IF Len(queue) = 0
       THEN /\ pc' = "IndexError"
            /\ UNCHANGED <<mem, queue, shadow, completed, abort, popped>>
       ELSE LET a  == PopLeft(queue).item
                q2 == PopLeft(queue).rest
                m2 == SetGrid(mem, mem[a])
            IN  /\ mem' = Release(m2, a, q2)
                /\ queue' = q2
                /\ shadow' = Tail(shadow)
                /\ popped' = mem[a].data
                /\ completed' = IsCompleted(m2[GAddr].data)
                /\ abort' = AbortAfterPop(q2, abort)
                /\ pc' = IF LoopTest(IsCompleted(m2[GAddr].data), AbortAfterPop(q2, abort))
                         THEN "loop" ELSE "done"
    /\ UNCHANGED <<field, possibilities, entry, expanded, iter, ret, out, lastSet>>

----------------------------------------------------------------------------
(* Initial grids: a solved grid with up to MaxChanged cells of a pool either *)
(* cleared or overwritten.                                                   *)

BaseRows == << <<8, 7, 2, 5, 9, 3, 1, 4, 6>>,
               <<3, 4, 6, 2, 7, 1, 5, 9, 8>>,
               <<9, 1, 5, 8, 4, 6, 3, 2, 7>>,
               <<5, 6, 7, 9, 2, 8, 4, 3, 1>>,
               <<4, 3, 9, 1, 5, 7, 8, 6, 2>>,
               <<1, 2, 8, 3, 6, 4, 9, 7, 5>>,
               <<7, 8, 4, 6, 1, 9, 2, 5, 3>>,
               <<6, 5, 3, 4, 8, 2, 7, 1, 9>>,
               <<2, 9, 1, 7, 3, 5, 6, 8, 4>> >>

Base == [r \in Idx |-> [c \in Idx |-> BaseRows[r + 1][c + 1]]]

\* the cells that may differ from Base: (2,4) (2,5) (5,4) (5,5) hold 4 6 / 6 4,
\* so clearing them leaves two completions
Pool == << <<2, 4>>, <<2, 5>>, <<5, 4>>, <<5, 5>>, <<2, 1>>, <<6, 4>> >>

\* the value a pool cell is overwritten with
Alt == <<2, 8, 4, 1, 2, 9>>

Changed(S, f) ==
    [r \in Idx |-> [c \in Idx |->
        IF \E i \in S : Pool[i] = <<r, c>>
        THEN LET i == CHOOSE j \in S : Pool[j] = <<r, c>>
             IN  IF f[i] = 0 THEN 0 ELSE Alt[i]
        ELSE Base[r][c]]]

\* a grid whose search meets a cell without candidate while other snapshots
\* are still queued: the four cells of the rectangle and (0, 4) cleared, the 4
\* of row 0 overwritten
DeadEndGrid ==
    [Base EXCEPT ![2][4] = 0, ![2][5] = 0, ![5][4] = 0, ![5][5] = 0,
                 ![0][4] = 0, ![0][7] = 1]

InitGrids ==
    UNION { { Changed(S, f) : f \in [S -> {0, 1}] } :
            S \in { T \in SUBSET (1 .. Len(Pool)) : Cardinality(T) <= MaxChanged } }
    \cup {DeadEndGrid}

InitCommon ==
    /\ queue = <<>>
    /\ pc = "idle"
    /\ completed = FALSE
    /\ abort = FALSE
    /\ field = <<>>
    /\ possibilities = <<>>
    /\ entry = <<>>
    /\ shadow = <<>>
    /\ expanded = <<>>
    /\ popped = <<>>
    /\ iter = 0
    /\ ret = [op |-> "none"]
    /\ out = None
    /\ lastSet = <<>>

----------------------------------------------------------------------------
(* solve() called once on each initial grid *)

InitSolve ==
    /\ \E g \in InitGrids : mem = [a \in {GAddr} |-> Array9x9(g)]
    /\ InitCommon

NextSolve == SolveBegin \/ Expand \/ Pop

SpecSolve == InitSolve /\ [][NextSolve]_vars

\* a step of solve() that has not returned yet: every one moves the control
\* position
Running == pc \in {"idle", "loop", "pop"}

Step == Running /\ pc' \in {"loop", "pop", "done", "IndexError"} /\ pc' # pc

\* solve() is a plain loop in a single thread with nothing to wait for: as
\* long as it has not returned or raised, it takes its next step
FairSolve == SpecSolve /\ WF_pc(Step)

----------------------------------------------------------------------------
(* One direct call of a Grid method on each initial grid *)

\* an array of the given shape filled with v
RECURSIVE Fill(_, _)
Fill(shape, v) ==
    IF Len(shape) = 0 THEN v
    ELSE [i \in 0 .. (shape[1] - 1) |-> Fill(Tail(shape), v)]

\* the shapes set_grid is called with: 0 to 3 dimensions
ArgShapes == { <<>>, <<9>>, <<81>>, <<3, 3>>, <<9, 8>>, <<8, 9>>, <<10, 9>>,
               <<9, 10>>, <<9, 9, 1>>, <<1, 9, 9>> }

ArgArrays ==
    { [shape |-> sh, data |-> Fill(sh, 7)] : sh \in ArgShapes }
    \cup { Array9x9(Zeros), Array9x9(Base),
           Array9x9([r \in Idx |-> [c \in Idx |-> (r + c) % 10]]) }

\* the row and column numbers set_number is called with
ArgIndices == { -10, -9, -1, 0, 4, 8, 9 }

ArgValues == { 0, 5 }

CallGetPossibilities ==
    /\ pc = "idle"
    /\ \E row \in Idx : \E column \in Idx :
           ret' = [op |-> "get_possibilities", args |-> <<row, column>>,
                   val |-> GetPossibilities(G, row, column), raised |-> "none"]
    /\ entry' = G
    /\ pc' = "returned"
    /\ UNCHANGED <<mem, queue, completed, abort, field, possibilities, shadow,
                   expanded, popped, iter, out, lastSet>>

CallFindMostConstrained ==
    /\ pc = "idle"
    /\ ret' = [op |-> "find_most_constrained", args |-> <<>>,
               val |-> FindMostConstrained(G), raised |-> "none"]
    /\ entry' = G
    /\ pc' = "returned"
    /\ UNCHANGED <<mem, queue, completed, abort, field, possibilities, shadow,
                   expanded, popped, iter, out, lastSet>>

CallSetGrid ==
    /\ pc = "idle"
    /\ \E arr \in ArgArrays :
           /\ mem' = SetGrid(mem, arr)
           /\ ret' = [op |-> "set_grid", args |-> arr, val |-> None,
                      raised |-> "none"]
    /\ entry' = G
    /\ pc' = "returned"
    /\ UNCHANGED <<queue, completed, abort, field, possibilities, shadow,
                   expanded, popped, iter, out, lastSet>>

CallSetNumber ==
    /\ pc = "idle"
    /\ \E row \in ArgIndices : \E column \in ArgIndices : \E value \in ArgValues :
           /\ mem' = [mem EXCEPT ![GAddr].data = SetNumber(G, row, column, value)]
           /\ ret' = [op |-> "set_number", args |-> <<row, column, value>>,
                      val |-> None,
                      raised |-> IF SetNumberOK(row, column) THEN "none"
                                 ELSE "IndexError"]
           /\ lastSet' = <<row, column, value>>
    /\ entry' = G
    /\ pc' = "returned"
    /\ UNCHANGED <<queue, completed, abort, field, possibilities, shadow,
                   expanded, popped, iter, out>>

\* to_string() on the initial grid or on the grid a set_grid or set_number
\* call has left
CallToString ==
    /\ \/ pc = "idle"
       \/ pc = "returned" /\ ret.op \in {"set_grid", "set_number"}
    /\ ret' = [op |-> "to_string", args |-> <<>>, val |-> to_string(G),
               raised |-> "none"]
    /\ entry' = G
    /\ pc' = "returned"
    /\ UNCHANGED <<mem, queue, completed, abort, field, possibilities, shadow,
                   expanded, popped, iter, out, lastSet>>

InitApi == InitSolve

NextApi ==
    \/ CallGetPossibilities
    \/ CallFindMostConstrained
    \/ CallSetGrid
    \/ CallSetNumber
    \/ CallToString

SpecApi == InitApi /\ [][NextApi]_vars

----------------------------------------------------------------------------
(* The command loop of the entry point *)

FooRows == << <<0, 0, 0, 0, 0, 0, 0, 1, 0>>,
              <<4, 0, 0, 0, 0, 0, 0, 0, 0>>,
              <<0, 2, 0, 0, 0, 0, 0, 0, 0>>,
              <<0, 0, 0, 0, 5, 0, 4, 0, 7>>,
              <<0, 0, 8, 0, 0, 0, 3, 0, 0>>,
              <<0, 0, 1, 0, 9, 0, 0, 0, 0>>,
              <<3, 0, 0, 4, 0, 0, 2, 0, 0>>,
              <<0, 5, 0, 1, 0, 0, 0, 0, 0>>,
              <<0, 0, 0, 8, 0, 6, 0, 0, 0>> >>

\* np.array(foo)
Foo == Array9x9([r \in Idx |-> [c \in Idx |-> FooRows[r + 1][c + 1]]])

\* a token of the input line is a sequence of characters
IsDigit(ch) == ch \in {"0", "1", "2", "3", "4", "5", "6", "7", "8", "9"}

DigitVal(ch) ==
    CASE ch = "0" -> 0 [] ch = "1" -> 1 [] ch = "2" -> 2 [] ch = "3" -> 3
      [] ch = "4" -> 4 [] ch = "5" -> 5 [] ch = "6" -> 6 [] ch = "7" -> 7
      [] ch = "8" -> 8 [] ch = "9" -> 9

\* the value of the first k characters of a sequence of digits
RECURSIVE DigitsVal(_, _)
DigitsVal(tok, k) ==
    IF k = 0 THEN 0 ELSE 10 * DigitsVal(tok, k - 1) + DigitVal(tok[k])

AllDigits(tok) == Len(tok) > 0 /\ \A i \in 1 .. Len(tok) : IsDigit(tok[i])

\* int(token): an optional sign and decimal digits, ValueError otherwise
ParseInt(tok) ==
    IF Len(tok) > 0 /\ tok[1] \in {"-", "+"}
    THEN IF AllDigits(Tail(tok))
         THEN [ok |-> TRUE,
               val |-> IF tok[1] = "-" THEN 0 - DigitsVal(Tail(tok), Len(tok) - 1)
                       ELSE DigitsVal(Tail(tok), Len(tok) - 1)]
         ELSE [ok |-> FALSE, val |-> 0]
    ELSE IF AllDigits(tok) THEN [ok |-> TRUE, val |-> DigitsVal(tok, Len(tok))]
         ELSE [ok |-> FALSE, val |-> 0]

\* the range test with the lower limit off by one: (v >= 0) & (v <= 9)
InRangeFromZero(v) == (v >= 0) /\ (v <= 9)

\* (v >= 1) & (v <= 9)
InRange(v) == (v >= 1) /\ (v <= 9)

ErrSetCount == "Error: Command 'set' takes exactly 3 arguments."
ErrUnsetCount == "Error: Command 'unset' takes exactly 2 arguments."
ErrRange == "Error: All arguments must be numbers between 1 and 9."
ErrIllegal == "Error: Illegal argument."
ErrClear == "Error: Command 'clear' does not take arguments."
ErrFoo == "Error: Command 'foo' does not take arguments."
ErrSolve == "Error: Command 'solve' does not take arguments."
ErrExit == "Error: Command 'exit' does not take arguments."
ErrUnknown == "Error: Unknown command"
Printed == "grid"

\* the argument lists (split_input[1:]) the commands are given
SetArgs ==
    { << <<"1">>, <<"2">>, <<"5">> >>, << <<"1">>, <<"3">>, <<"6">> >>,
      << <<"1">>, <<"4">>, <<"7">> >>, << <<"1">>, <<"5">>, <<"8">> >>,
      << <<"1">>, <<"6">>, <<"9">> >>, << <<"+", "1">>, <<"2">>, <<"5">> >>,
      << <<"0">>, <<"1">>, <<"1">> >>, << <<"1">>, <<"0">>, <<"1">> >>,
      << <<"1">>, <<"1">>, <<"0">> >>, << <<"1", "0">>, <<"1">>, <<"1">> >>,
      << <<"1">>, <<"1", "0">>, <<"1">> >>, << <<"1">>, <<"1">>, <<"1", "0">> >>,
      << <<"-", "1">>, <<"1">>, <<"1">> >>, << <<"x">>, <<"1">>, <<"1">> >>,
      << <<"1">>, <<"1", ".", "5">>, <<"1">> >>, << <<"1">>, <<"1">>, <<"-">> >>,
      << <<"1">>, <<"1">> >>, << <<"1">>, <<"1">>, <<"1">>, <<"1">> >>, << >> }

UnsetArgs ==
    { << <<"1">>, <<"2">> >>, << <<"1">>, <<"4">> >>, << <<"1">>, <<"8">> >>,
      << <<"0">>, <<"2">> >>, << <<"1">>, <<"0">> >>, << <<"1", "0">>, <<"2">> >>,
      << <<"1">>, <<"-", "2">> >>, << <<"x">>, <<"2">> >>, << <<"1">>, <<"y">> >>,
      << <<"1">> >>, << <<"1">>, <<"2">>, <<"3">> >>, << >> }

NoArgs == { << >>, << <<"x">> >>, << <<"1">>, <<"2">> >> }

cliUnchanged == <<queue, completed, abort, field, possibilities, entry, shadow,
                  expanded, popped, iter, ret>>

\* command == "set"
CmdSet ==
    /\ pc = "idle"
    /\ \E args \in SetArgs :
         IF Len(args) # 3
         THEN out' = ErrSetCount /\ UNCHANGED <<mem, lastSet>>
         ELSE \E row \in {ParseInt(args[1])} : \E column \in {ParseInt(args[2])} :
              \E value \in {ParseInt(args[3])} :
                IF ~ (row.ok /\ column.ok /\ value.ok)
                THEN out' = ErrIllegal /\ UNCHANGED <<mem, lastSet>>
                ELSE IF InRange(row.val) /\ InRange(column.val) /\ InRange(value.val)
                     THEN /\ mem' = [mem EXCEPT ![GAddr].data =
                                 SetNumber(G, row.val - 1, column.val - 1, value.val)]
                          /\ lastSet' = <<row.val - 1, column.val - 1, value.val>>
                          /\ out' = Printed
                     ELSE out' = ErrRange /\ UNCHANGED <<mem, lastSet>>
    /\ UNCHANGED pc
    /\ UNCHANGED cliUnchanged

\* command == "unset"
CmdUnset ==
    /\ pc = "idle"
    /\ \E args \in UnsetArgs :
         IF Len(args) # 2
         THEN out' = ErrUnsetCount /\ UNCHANGED <<mem, lastSet>>
         ELSE \E row \in {ParseInt(args[1])} : \E column \in {ParseInt(args[2])} :
                IF ~ (row.ok /\ column.ok)
                THEN out' = ErrIllegal /\ UNCHANGED <<mem, lastSet>>
                ELSE IF InRange(row.val) /\ InRange(column.val)
                     THEN /\ mem' = [mem EXCEPT ![GAddr].data =
                                 SetNumber(G, row.val - 1, column.val - 1, 0)]
                          /\ lastSet' = <<row.val - 1, column.val - 1, 0>>
                          /\ out' = Printed
                     ELSE out' = ErrRange /\ UNCHANGED <<mem, lastSet>>
    /\ UNCHANGED pc
    /\ UNCHANGED cliUnchanged

\* command == "clear"
CmdClear ==
    /\ pc = "idle"
    /\ \E args \in NoArgs :
         IF Len(args) # 0
         THEN out' = ErrClear /\ UNCHANGED mem
         ELSE /\ mem' = [mem EXCEPT ![GAddr].data = ClearGrid(G)]
              /\ out' = Printed
    /\ UNCHANGED <<pc, lastSet>>
    /\ UNCHANGED cliUnchanged

\* command == "foo"
CmdFoo ==
    /\ pc = "idle"
    /\ \E args \in NoArgs :
         IF Len(args) # 0
         THEN out' = ErrFoo /\ UNCHANGED mem
         ELSE /\ mem' = SetGrid(mem, Foo)
              /\ out' = Printed
    /\ UNCHANGED <<pc, lastSet>>
    /\ UNCHANGED cliUnchanged

\* command == "solve" with arguments
CmdSolveArgs ==
    /\ pc = "idle"
    /\ \E args \in NoArgs : Len(args) # 0
    /\ out' = ErrSolve
    /\ UNCHANGED <<mem, pc, lastSet>>
    /\ UNCHANGED cliUnchanged

\* command == "solve": grid.solve() is entered
CmdSolve ==
    /\ \E args \in NoArgs : Len(args) = 0
    /\ SolveBegin

\* an iteration of solve(), followed for MaxIter iterations
CliExpand == iter < MaxIter /\ Expand

\* solve() has returned: its locals and the deque are gone, the grid is
\* printed
SolveReturn ==
    /\ pc = "done"
    /\ mem' = [a \in {GAddr} |-> mem[GAddr]]
    /\ queue' = <<>>
    /\ shadow' = <<>>
    /\ completed' = FALSE
    /\ abort' = FALSE
    /\ field' = <<>>
    /\ possibilities' = <<>>
    /\ entry' = <<>>
    /\ expanded' = <<>>
    /\ popped' = <<>>
    /\ iter' = 0
    /\ out' = Printed
    /\ pc' = "idle"
    /\ UNCHANGED <<ret, lastSet>>

\* command == "exit"
CmdExit ==
    /\ pc = "idle"
    /\ \E args \in NoArgs :
         IF Len(args) # 0
         THEN out' = ErrExit /\ UNCHANGED pc
         ELSE pc' = "exit" /\ UNCHANGED out
    /\ UNCHANGED <<mem, lastSet>>
    /\ UNCHANGED cliUnchanged

\* any other command word
CmdUnknown ==
    /\ pc = "idle"
    /\ out' = ErrUnknown
    /\ UNCHANGED <<mem, pc, lastSet>>
    /\ UNCHANGED cliUnchanged

\* grid = Grid()
InitCli ==
    /\ mem = [a \in {GAddr} |-> Array9x9(Zeros)]
    /\ InitCommon

NextCli ==
    \/ CmdSet
    \/ CmdUnset
    \/ CmdClear
    \/ CmdFoo
    \/ CmdSolveArgs
    \/ CmdSolve
    \/ CliExpand
    \/ Pop
    \/ SolveReturn
    \/ CmdExit
    \/ CmdUnknown

SpecCli == InitCli /\ [][NextCli]_vars

----------------------------------------------------------------------------
(* What the claims speak of, stated apart from the code's own computation *)

Rows == { { <<r, c>> : c \in Idx } : r \in Idx }

Columns == { { <<r, c>> : r \in Idx } : c \in Idx }

Boxes == { { <<r, c>> : r \in (br * 3) .. (br * 3 + 2), c \in (bc * 3) .. (bc * 3 + 2) } :
           br \in 0 .. 2, bc \in 0 .. 2 }

Units == Rows \cup Columns \cup Boxes

\* no assigned value occurs twice in a row, a column or a box
DupFree(g) ==
    \A u \in Units : \A p \in u : \A q \in u :
        (p # q /\ g[p[1]][p[2]] > 0) => g[p[1]][p[2]] # g[q[1]][q[2]]

\* every row, column and box holds every digit 1..9 (so each exactly once)
ValidSolution(g) ==
    \A u \in Units : { g[p[1]][p[2]] : p \in u } = 1 .. 9

\* the digits no cell of the row, the column or the box of (r, c) holds
CandidateSet(g, r, c) ==
    { d \in 1 .. 9 : \A u \in Units : <<r, c>> \in u =>
                        \A p \in u : g[p[1]][p[2]] # d }

Unassigned(g) == { p \in Idx \X Idx : g[p[1]][p[2]] = 0 }

\* g can be completed to a valid solution (backtracking over the unassigned
\* cells, any order)
RECURSIVE Completable(_)
Completable(g) ==
    IF Unassigned(g) = {} THEN ValidSolution(g)
    ELSE LET p == CHOOSE x \in Unassigned(g) : TRUE
         IN  \E d \in CandidateSet(g, p[1], p[2]) :
                 Completable([g EXCEPT ![p[1]][p[2]] = d])

HasCompletion(g) == DupFree(g) /\ Completable(g)

\* s is e.grid with one candidate written into the cell e chose
SuccessorOf(s, e) ==
    /\ e.row \in Idx /\ e.column \in Idx
    /\ e.grid[e.row][e.column] = 0
    /\ \E d \in CandidateSet(e.grid, e.row, e.column) :
           s = [e.grid EXCEPT ![e.row][e.column] = d]

Snapshot(i) == mem[queue[i]].data

InSolve == pc \in {"loop", "pop", "done"}

----------------------------------------------------------------------------
(* Claims *)

\* C1: if the assigned cells of the grid solve() is called on hold no
\* duplicate in any row, column or box, then whenever solve() has terminated
\* with is_completed() true the grid holds every digit 1..9 exactly once in
\* each row, column and box.
C1_CompletedIsValid ==
    (pc = "done" /\ IsCompleted(G) /\ DupFree(entry)) => ValidSolution(G)

C1_Witness ==
    /\ pc = "done" /\ IsCompleted(G) /\ DupFree(entry)
    /\ Cardinality(Unassigned(entry)) >= 3
    /\ Len(expanded) >= 4

\* C2: solve() eventually terminates, and at termination is_completed() is
\* true or the frontier is empty.
C2_Terminates ==
    /\ <>(pc = "done")
    /\ [](pc = "done" => (IsCompleted(G) \/ Len(queue) = 0))

C2_Witness ==
    /\ pc = "done" /\ ~ IsCompleted(G) /\ Len(queue) = 0
    /\ Len(expanded) >= 3

\* C3 as stated: before solve() is called there is, among the grids it may be
\* called on, one that is duplicate-free and has a valid completion and on
\* which solve() ends by exhaustion with the grid incomplete.
C3_IncompleteSolver ==
    pc = "idle" =>
    \E g \in InitGrids :
        /\ HasCompletion(g)
        /\ \E o \in {SolveOutcome(g)} : o.abort /\ ~ IsCompleted(o.grid)

\* C3 (amended): on every initial grid that is duplicate-free and has a valid
\* completion, solve() terminates with is_completed() true and a valid grid;
\* it ends by exhaustion with an incomplete grid only on grids without one.
C3_CompleteOnSolvable ==
    (pc = "done" /\ HasCompletion(entry)) => (IsCompleted(G) /\ ValidSolution(G))

C3_Witness ==
    /\ pc = "done" /\ HasCompletion(entry) /\ IsCompleted(G)
    /\ Cardinality(Unassigned(entry)) >= 4
    /\ \E i \in 1 .. Len(expanded) :
           Cardinality(CandidateSet(expanded[i].grid, expanded[i].row,
                                    expanded[i].column)) >= 2

\* C4 as stated: every snapshot in the frontier other than the initial one
\* is a successor of the most recently expanded grid.
C4_OnlyLastExpansion ==
    (InSolve /\ Len(expanded) > 0) =>
        \A i \in 1 .. Len(queue) :
            Snapshot(i) = entry \/ SuccessorOf(Snapshot(i), expanded[Len(expanded)])

\* C4 (amended): every snapshot in the frontier other than the initial one is
\* a successor of a grid expanded earlier in this solve(): that grid with one
\* candidate written into the cell that expansion chose.  The frontier may
\* hold successors of different expansions at once.
C4_SuccessorOfAnExpansion ==
    InSolve =>
        \A i \in 1 .. Len(queue) :
            Snapshot(i) = entry
            \/ \E k \in 1 .. Len(expanded) : SuccessorOf(Snapshot(i), expanded[k])

C4_Witness ==
    /\ InSolve /\ Len(expanded) >= 3
    /\ \E i \in 1 .. Len(queue) : \E j \in 1 .. Len(queue) :
           /\ Snapshot(i) # entry /\ Snapshot(j) # entry
           /\ SuccessorOf(Snapshot(i), expanded[Len(expanded)])
           /\ ~ SuccessorOf(Snapshot(j), expanded[Len(expanded)])

\* C8: a queued snapshot is an array of its own: it is not the grid's array,
\* no two queued snapshots are the same array, and whatever set_number and
\* set_grid did to the grid since, its cells are those of the grid when it
\* was pushed.
C8_SnapshotsIndependent ==
    InSolve =>
        /\ Len(shadow) = Len(queue)
        /\ \A i \in 1 .. Len(queue) :
               /\ queue[i] # GAddr
               /\ Snapshot(i) = shadow[i]
               /\ \A j \in 1 .. Len(queue) : i # j => queue[i] # queue[j]

C8_Witness ==
    /\ pc = "loop" /\ Len(queue) >= 2 /\ Len(expanded) >= 2
    /\ \E i \in 1 .. Len(queue) : Snapshot(i) = shadow[i] /\ shadow[i] # G


\* the cells of g in row-major order: p comes before q
RowMajorBefore(p, q) == p[1] < q[1] \/ (p[1] = q[1] /\ p[2] < q[2])

Count(g, p) == Cardinality(CandidateSet(g, p[1], p[2]))

Returned(op) == pc = "returned" /\ ret.op = op

\* C5: get_possibilities(row, column) returns <<c>> if the cell holds c > 0;
\* otherwise it returns, in ascending order and each once, exactly the
\* digits of 1..9 that no cell of the row, the column or the box holds (the
\* empty sequence when there is none).
C5_Possibilities ==
    Returned("get_possibilities") =>
        LET row == ret.args[1]
            column == ret.args[2]
            c == entry[row][column]
        IN  /\ G = entry
            /\ IF c > 0 THEN ret.val = <<c>>
               ELSE /\ { ret.val[i] : i \in 1 .. Len(ret.val) }
                           = CandidateSet(entry, row, column)
                    /\ \A i \in 1 .. Len(ret.val) : \A j \in 1 .. Len(ret.val) :
                           i < j => ret.val[i] < ret.val[j]

C5_Witness ==
    /\ Returned("get_possibilities")
    /\ entry[ret.args[1]][ret.args[2]] = 0
    /\ Len(ret.val) >= 2
    /\ \E d \in 1 .. 9 : /\ d \notin CandidateSet(entry, ret.args[1], ret.args[2])
                         /\ \A k \in Idx : entry[ret.args[1]][k] # d
                         /\ \A k \in Idx : entry[k][ret.args[2]] # d

\* C6: on a grid with an unassigned cell, find_most_constrained returns an
\* unassigned cell with the fewest candidates among the unassigned cells,
\* and the first such cell in row-major order.
C6_MostConstrainedFirst ==
    (Returned("find_most_constrained") /\ Unassigned(entry) # {}) =>
        /\ ret.val \in Unassigned(entry)
        /\ \A p \in Unassigned(entry) :
               /\ Count(entry, ret.val) <= Count(entry, p)
               /\ Count(entry, p) = Count(entry, ret.val) =>
                      (p = ret.val \/ RowMajorBefore(ret.val, p))

C6_Witness ==
    /\ Returned("find_most_constrained")
    /\ ret.val \in Unassigned(entry)
    /\ \E p \in Unassigned(entry) :
           RowMajorBefore(p, ret.val) /\ Count(entry, p) > Count(entry, ret.val)
    /\ \E p \in Unassigned(entry) :
           RowMajorBefore(ret.val, p) /\ Count(entry, p) = Count(entry, ret.val)

\* C9: set_grid with an input whose shape is not exactly 9x9 changes no cell
\* of the grid; with a 9x9 input every cell becomes the input's entry.
C9_SetGridShape ==
    Returned("set_grid") =>
        IF ret.args.shape = <<9, 9>>
        THEN \A r \in Idx : \A c \in Idx : G[r][c] = ret.args.data[r][c]
        ELSE G = entry

C9_Witness ==
    /\ Returned("set_grid")
    /\ Len(ret.args.shape) = 2 /\ ret.args.shape[1] = 9 /\ ret.args.shape[2] # 9
    /\ G = entry /\ \E r \in Idx : \E c \in Idx : G[r][c] # 7

\* C10: set_number(row, column, value) with row or column outside [0,9),
\* negative ones included, fails with an out-of-bounds error and changes
\* no cell of the grid.
C10_OutOfRangeFails ==
    (Returned("set_number")
     /\ (ret.args[1] \notin 0 .. 8 \/ ret.args[2] \notin 0 .. 8)) =>
        (ret.raised = "IndexError" /\ G = entry)


RejectMessages == {ErrSetCount, ErrUnsetCount, ErrRange, ErrIllegal}

CellsInRange ==
    /\ DOMAIN G = Idx
    /\ \A r \in Idx : DOMAIN G[r] = Idx /\ \A c \in Idx : G[r][c] \in 0 .. 9

\* C7: whatever commands are entered, every one of the 81 cells holds a value
\* in 0..9, set_number is only invoked with row and column in 0..8, and a
\* command that ends in one of the error messages of set and unset leaves
\* the grid as it was.
C7_CommandLoopSafe ==
    /\ [](CellsInRange
          /\ (Len(lastSet) > 0 => (lastSet[1] \in 0 .. 8 /\ lastSet[2] \in 0 .. 8)))
    /\ [][(pc = "idle" /\ out' \in RejectMessages) => G' = G]_vars

C7_Witness ==
    /\ pc = "idle" /\ out = ErrRange
    /\ Len(lastSet) > 0 /\ G[lastSet[1]][lastSet[2]] = lastSet[3]
    /\ lastSet[3] > 0
    /\ \E r \in Idx : \E c \in Idx : G[r][c] > 0 /\ <<r, c>> # <<lastSet[1], lastSet[2]>>

----------------------------------------------------------------------------

\* C11: find_most_constrained() returns the sentinel (-1, -1) when all 81
\* cells of the grid are assigned, and returns the sentinel only then: on a
\* grid with an unassigned cell it returns the coordinates of a cell.
C11_SentinelIffAllAssigned ==
    Returned("find_most_constrained") =>
        (ret.val = <<-1, -1>> <=> Unassigned(entry) = {})

\* the call has returned the sentinel on a grid with no unassigned cell
C11_Witness ==
    /\ Returned("find_most_constrained")
    /\ Unassigned(entry) = {}
    /\ ret.val = <<-1, -1>>

----------------------------------------------------------------------------

\* the lines of a string: its parts between the newline characters
NewlineAt(s) == { i \in 1 .. Len(s) : s[i] = "\n" }

RECURSIVE SplitLines(_)
SplitLines(s) ==
    IF NewlineAt(s) = {} THEN <<s>>
    ELSE LET i == CHOOSE j \in NewlineAt(s) : \A k \in NewlineAt(s) : j <= k
         IN  <<SubSeq(s, 1, i - 1)>> \o SplitLines(SubSeq(s, i + 1, Len(s)))

\* the line of the output that shows row r, the character of a line that
\* shows column c (both counted from 1)
LineOfRow(r) == r + 1 + (r \div 3)

CharOfColumn(c) == c + 1 + (c \div 3)

\* C12: to_string() returns exactly 11 lines; lines 4 and 8 are the literal
\* "---+---+---"; each of the other 9 lines has 11 characters, a '|' at
\* positions 4 and 8 and nowhere else, and its other 9 characters are, in
\* column order, the digit of the cell if its value is > 0 and '?' if it is 0.
C12_ToStringLayout ==
    Returned("to_string") =>
        LET ls == SplitLines(ret.val)
        IN  /\ Len(ls) = 11
            /\ ls[4] = <<"-", "-", "-", "+", "-", "-", "-", "+", "-", "-", "-">>
            /\ ls[8] = <<"-", "-", "-", "+", "-", "-", "-", "+", "-", "-", "-">>
            /\ \A r \in Idx :
                   LET l == ls[LineOfRow(r)]
                   IN  /\ Len(l) = 11
                       /\ { i \in 1 .. Len(l) : l[i] = "|" } = {4, 8}
                       /\ \A c \in Idx :
                              LET ch == l[CharOfColumn(c)]
                              IN  IF entry[r][c] > 0
                                  THEN IsDigit(ch) /\ DigitVal(ch) = entry[r][c]
                                  ELSE ch = "?"

\* to_string() has returned on a grid that holds both assigned and
\* unassigned cells
C12_Witness ==
    /\ Returned("to_string")
    /\ Unassigned(entry) # {}
    /\ \E r \in Idx : \E c \in Idx : entry[r][c] > 0
    /\ Len(ret.val) = 131

----------------------------------------------------------------------------

\* the elements of a set of numbers in ascending order
RECURSIVE Ascending(_)
Ascending(S) ==
    IF S = {} THEN <<>>
    ELSE LET m == CHOOSE x \in S : \A y \in S : x <= y
         IN  <<m>> \o Ascending(S \ {m})

\* the step of one iteration that pushes, the step that pops
ExpandStep == pc = "loop" /\ pc' = "pop"

PopStep == pc = "pop" /\ pc' \in {"loop", "done"}

\* C13: an iteration of solve() pushes exactly one snapshot per candidate of
\* the selected cell, each the live grid of before the pushes with only the
\* selected cell changed to that candidate, behind the snapshots already
\* queued and in ascending order of the candidates; a pop takes the oldest
\* snapshot and leaves the others in their order (first in, first out).
C13_PushPerCandidateFifo ==
    [][ /\ ExpandStep =>
            LET row == field'[1]
                column == field'[2]
                cs == Ascending(CandidateSet(G, row, column))
            IN  /\ Len(queue') = Len(queue) + Len(cs)
                /\ \A i \in 1 .. Len(queue) :
                       queue'[i] = queue[i] /\ mem'[queue'[i]] = mem[queue[i]]
                /\ \A k \in 1 .. Len(cs) :
                       mem'[queue'[Len(queue) + k]].data =
                           [G EXCEPT ![row][column] = cs[k]]
        /\ PopStep =>
            /\ G' = mem[queue[1]].data
            /\ Len(queue') = Len(queue) - 1
            /\ \A i \in 1 .. Len(queue') :
                   mem'[queue'[i]] = mem[queue[i + 1]]
      ]_vars

\* the second iteration has pushed two snapshots behind two queued ones, and
\* a snapshot has been popped before
C13_Witness ==
    /\ pc = "pop"
    /\ Len(possibilities) >= 2
    /\ Len(queue) >= Len(possibilities) + 2
    /\ popped # <<>>

----------------------------------------------------------------------------

\* the unassigned cells of g that have no candidate
DeadCells(g) == { p \in Unassigned(g) : CandidateSet(g, p[1], p[2]) = {} }

\* the first cell of a set in row-major order
FirstRowMajor(S) == CHOOSE p \in S : \A q \in S \ {p} : RowMajorBefore(p, q)

\* the grid the current iteration started on
IterationGrid == expanded[Len(expanded)].grid

\* C14: if the live grid at the start of an iteration has an unassigned cell
\* with no candidate, find_most_constrained selects the first such cell in
\* row-major order, the iteration pushes no snapshot, and its pop takes one
\* snapshot off the frontier, which so ends the iteration one shorter.
C14_DeadEndIteration ==
    [][ /\ (ExpandStep /\ DeadCells(G) # {}) =>
            /\ field' = FirstRowMajor(DeadCells(G))
            /\ possibilities' = <<>>
            /\ queue' = queue
            /\ \A i \in 1 .. Len(queue) : mem'[queue[i]] = mem[queue[i]]
        /\ (pc = "pop" /\ pc' # pc /\ DeadCells(IterationGrid) # {}) =>
            /\ pc' \in {"loop", "done"}
            /\ Len(queue') = Len(queue) - 1
      ]_vars

\* an iteration on a grid with two cells without candidate has pushed
\* nothing and has popped, and the frontier still holds snapshots
C14_Witness ==
    /\ pc = "loop"
    /\ Len(queue) >= 2
    /\ possibilities = <<>>
    /\ Cardinality(DeadCells(IterationGrid)) >= 2
    /\ field = FirstRowMajor(DeadCells(IterationGrid))

----------------------------------------------------------------------------

\* C15: at the end of every iteration of the loop of solve(), and so when
\* solve() returns after at least one iteration, the live grid equals cell
\* for cell the snapshot popped in that iteration: the candidate values the
\* iteration wrote into the live grid do not survive the pop.
C15_LiveGridIsPopped ==
    (pc \in {"loop", "done"} /\ iter >= 1) => G = popped

\* solve() has returned after two iterations or more, and the cell the last
\* iteration wrote candidates into does not hold the last of them
C15_Witness ==
    /\ pc = "done"
    /\ iter >= 2
    /\ Len(possibilities) >= 1
    /\ lastSet = <<field[1], field[2], possibilities[Len(possibilities)]>>
    /\ G[field[1]][field[2]] # lastSet[3]

----------------------------------------------------------------------------

\* the cells assigned in g
Assigned(g) == (Idx \X Idx) \ Unassigned(g)

\* g holds at every cell assigned in e the value e holds there
KeepsAssigned(g, e) == \A p \in Assigned(e) : g[p[1]][p[2]] = e[p[1]][p[2]]

\* C16: solve() never changes a cell that was assigned when it was called:
\* while it runs and when it has returned, the live grid and every snapshot of
\* the frontier hold at each such cell the value it had at entry; solve() on
\* a completed grid changes nothing.
C16_AssignedCellsKept ==
    InSolve =>
        /\ KeepsAssigned(G, entry)
        /\ \A i \in 1 .. Len(queue) : KeepsAssigned(Snapshot(i), entry)
        /\ (pc = "done" /\ IsCompleted(entry)) => G = entry

\* solve() has returned a grid that differs from the one it was called on,
\* which had assigned cells
C16_Witness ==
    /\ pc = "done"
    /\ iter >= 2
    /\ G # entry
    /\ Assigned(entry) # {}

----------------------------------------------------------------------------

\* C17: within solve(), find_most_constrained is only evaluated on a live grid
\* that is not completed: every grid an iteration started on has an
\* unassigned cell, the cell selected is a cell of the grid and never the
\* sentinel (-1, -1), and so are the coordinates get_possibilities and
\* set_number were called with.
C17_NeverSentinelInSolve ==
    InSolve =>
        /\ pc = "loop" => Unassigned(G) # {}
        /\ \A i \in 1 .. Len(expanded) :
               /\ Unassigned(expanded[i].grid) # {}
               /\ <<expanded[i].row, expanded[i].column>> \in Idx \X Idx
        /\ iter >= 1 => field \in Idx \X Idx
        /\ (iter >= 1 /\ Len(possibilities) > 0) =>
               <<lastSet[1], lastSet[2]>> \in Idx \X Idx

\* solve() has returned a completed grid after iterations that selected
\* cells and wrote candidates into them
C17_Witness ==
    /\ pc = "done"
    /\ completed
    /\ Len(expanded) >= 3
    /\ Len(possibilities) > 0
    /\ field \in Idx \X Idx

----------------------------------------------------------------------------

\* C18: popleft() is never executed on an empty frontier: at the start of
\* every iteration, and so at its pop, the frontier holds at least one
\* snapshot, no IndexError is raised, and once a pop has left the frontier
\* empty the loop is left without another iteration.
C18_PopNeverOnEmpty ==
    /\ pc \in {"loop", "pop"} => Len(queue) >= 1
    /\ pc # "IndexError"
    /\ (InSolve /\ iter >= 1 /\ Len(queue) = 0) => (pc = "done" /\ abort)

\* a pop has taken the last snapshot of the frontier and the loop has been
\* left with the grid not completed
C18_Witness ==
    /\ pc = "done"
    /\ iter >= 2
    /\ Len(queue) = 0
    /\ abort
    /\ ~ completed

----------------------------------------------------------------------------

\* the successors of grid e at cell p: e with each candidate of p written
\* into p, in ascending order of the candidates
SuccessorsAt(e, p) ==
    LET cs == Ascending(CandidateSet(e, p[1], p[2]))
    IN  [k \in 1 .. Len(cs) |-> [e EXCEPT ![p[1]][p[2]] = cs[k]]]

\* the snapshots of the frontier, oldest first
Frontier == [i \in 1 .. Len(queue) |-> Snapshot(i)]

\* C19: the first pop returns the initial snapshot, so after the first
\* iteration the live grid equals the grid at entry; a second iteration, when
\* there is one, expands that same grid again (same cell, same candidates),
\* so that every successor of the initial grid is pushed twice.
C19_InitialGridExpandedTwice ==
    InSolve =>
        /\ (iter = 1 /\ pc \in {"loop", "done"}) => (popped = entry /\ G = entry)
        /\ Len(expanded) >= 1 => expanded[1].grid = entry
        /\ Len(expanded) >= 2 => expanded[2] = expanded[1]
        /\ (iter = 2 /\ pc = "pop") =>
               Frontier = SuccessorsAt(entry, field) \o SuccessorsAt(entry, field)

\* the second iteration has pushed the two successors of the initial grid
\* behind the same two successors pushed by the first
C19_Witness ==
    /\ iter = 2
    /\ pc = "pop"
    /\ Len(queue) = 4
    /\ Snapshot(1) = Snapshot(3)
    /\ Snapshot(2) = Snapshot(4)
    /\ Snapshot(1) # Snapshot(2)

----------------------------------------------------------------------------

\* the number of assigned cells of g
NumAssigned(g) == Cardinality(Assigned(g))

\* C20: during solve() the numbers of assigned cells of the snapshots popped
\* one after the other never decrease, and at any moment the numbers of
\* assigned cells of any two snapshots of the frontier differ by at most one.
C20_LevelOrder ==
    [][ /\ (PopStep /\ popped # <<>>) => NumAssigned(popped') >= NumAssigned(popped)
        /\ \A i \in 1 .. Len(queue') : \A j \in 1 .. Len(queue') :
               NumAssigned(mem'[queue'[i]].data)
                   <= NumAssigned(mem'[queue'[j]].data) + 1
      ]_vars

\* a snapshot with more assigned cells than the one before it has been popped
\* while the frontier holds snapshots of two different numbers
C20_Witness ==
    /\ pc = "loop"
    /\ iter >= 3
    /\ NumAssigned(popped) >= NumAssigned(entry) + 2
    /\ \E i \in 1 .. Len(queue) : \E j \in 1 .. Len(queue) :
           NumAssigned(Snapshot(i)) # NumAssigned(Snapshot(j))

====
